---- MODULE Spec2Model ----
(***************************************************************************)
(* Accounting engine of the referral-staking program                       *)
(* (programs/referral-staking/src/lib-complete.rs).                        *)
(*                                                                         *)
(* Quantities are u64 in the source and intermediate products u128.  The   *)
(* model keeps both widths in proportion (the wide type has twice the bits *)
(* of the quantity type) but with QuantityBits bits instead of 64, and it  *)
(* counts the clock in ticks of SecondsPerTick seconds.  Basis-point       *)
(* constants (10000, 5000, 2000) are the source's.                         *)
(*                                                                         *)
(* An instruction that returns Err is discarded as a whole by the runtime: *)
(* every handler below yields its error code together with the untouched   *)
(* accounts it was given.                                                  *)
(***************************************************************************)
EXTENDS Integers, Sequences, FiniteSets, TLC

\* ------------------------------------------------------------------ bounds
QuantityBits == 14
SecondsPerTick == 21600
MaxSteps == 7

\* --------------------------------------------------------- integer widths
U64_MAX == 2^QuantityBits - 1
U128_MAX == 2^(2 * QuantityBits) - 1

Some(v) == <<v>>
None == <<>>
unwrap_or(o, d) == IF o = None THEN d ELSE o[1]

\* u64::checked_add / checked_sub
checked_add(a, b) == IF a + b > U64_MAX THEN None ELSE Some(a + b)
checked_sub(a, b) == IF a < b THEN None ELSE Some(a - b)

\* u128::checked_mul / checked_div
checked_mul_u128(a, b) ==
    IF b = 0 THEN Some(0)
    ELSE IF a > U128_MAX \div b THEN None
    ELSE Some(a * b)
checked_div_u128(a, b) == IF b = 0 THEN None ELSE Some(a \div b)

\* `x as u64` of a u128 value: keeps the low bits
as_u64(x) == x % (U64_MAX + 1)

\* ------------------------------------------------------ program constants
BPS_DENOMINATOR == 10000
MAX_EARLY_UNSTAKE_PENALTY == 5000
MAX_REFERRAL_REWARD_RATE == 2000
seconds_in_day == 86400 \div SecondsPerTick

\* ------------------------------------------------------- pure calculators
\* calculate_reward that leaves the elapsed time out: the reward of one day
calculate_reward_per_day(amount, time_passed, daily_rate) ==
    as_u64(unwrap_or(checked_div_u128(
        unwrap_or(checked_mul_u128(amount, daily_rate), 0),
        BPS_DENOMINATOR), 0))

\* calculate_reward that counts only the time since the last whole day
calculate_reward_within_day(amount, time_passed, daily_rate) ==
    as_u64(unwrap_or(checked_div_u128(
        unwrap_or(checked_mul_u128(
            unwrap_or(checked_div_u128(
                unwrap_or(checked_mul_u128(amount, daily_rate), 0),
                BPS_DENOMINATOR), 0),
            time_passed % seconds_in_day), 0),
        seconds_in_day), 0))

calculate_reward(amount, time_passed, daily_rate) ==
    LET daily_reward ==
            unwrap_or(checked_div_u128(
                unwrap_or(checked_mul_u128(amount, daily_rate), 0),
                BPS_DENOMINATOR), 0)
        reward ==
            unwrap_or(checked_div_u128(
                unwrap_or(checked_mul_u128(daily_reward, time_passed), 0),
                seconds_in_day), 0)
    IN  as_u64(reward)

calculate_referral_reward(amount, referral_rate) ==
    as_u64(unwrap_or(checked_div_u128(
        unwrap_or(checked_mul_u128(amount, referral_rate), 0),
        BPS_DENOMINATOR), 0))

\* the early-unstake penalty block of unstake
early_unstake_penalty_for(amount, time_staked, unlock_duration, penalty_rate) ==
    IF time_staked < unlock_duration
    THEN as_u64(unwrap_or(checked_div_u128(
             unwrap_or(checked_mul_u128(amount, penalty_rate), 0),
             BPS_DENOMINATOR), 0))
    ELSE 0

\* a settlement block that clamps the pending reward at the top of the
\* quantity type
settle_rewards_clamps(ui, reward_rate, current_time) ==
    IF ui.staked_amount > 0 /\ current_time > ui.last_stake_time
    THEN LET time_passed == current_time - ui.last_stake_time
             reward == calculate_reward(ui.staked_amount, time_passed, reward_rate)
         IN  unwrap_or(checked_add(ui.rewards, reward), U64_MAX)
    ELSE ui.rewards

\* the settlement block every handler starts with: the pending reward after
\* crediting the accrual since last_stake_time
settle_rewards(ui, reward_rate, current_time) ==
    IF ui.staked_amount > 0 /\ current_time > ui.last_stake_time
    THEN LET time_passed == current_time - ui.last_stake_time
             reward == calculate_reward(ui.staked_amount, time_passed, reward_rate)
         IN  unwrap_or(checked_add(ui.rewards, reward), ui.rewards)
    ELSE ui.rewards

\* ------------------------------------------------------------ identities
Users == {"u1", "u2"}
MintAuthority == "admin"
Signers == Users \cup {MintAuthority}

\* ------------------------------------------------------------------ state
VARIABLES
    initialized,    \* the global_state account exists
    global_state,   \* GlobalState
    user_info,      \* owner -> UserInfo, one entry per created account
    clock,          \* Clock::get()?.unix_timestamp, in ticks
    wallet,         \* token balance of each signer's token account
    vault,          \* token balance of the vault token account
    last,           \* outcome of the latest instruction
    steps,          \* instructions processed and clock advances so far
    calc,           \* arguments and results of the calculators run on their own
    due,            \* <<referrer, amount>> of the qualifying first stakes whose
                    \* referral credit has not been issued yet, oldest first
    history,        \* per account: whether it has ever deposited, and the
                    \* reward_rate in force when its last_stake_time was set
    tracker         \* the accounts of the referral-tracker program

vars == <<initialized, global_state, user_info, clock, wallet, vault, last,
          steps, calc, due, history, tracker>>

\* GlobalState::default()
GlobalStateDefault ==
    [authority |-> "", reward_rate |-> 0, unlock_duration |-> 0,
     early_unstake_penalty |-> 0, min_stake_amount |-> 0,
     referral_reward_rate |-> 0, total_staked |-> 0, stakers_count |-> 0,
     reward_pool |-> 0, last_update_time |-> 0]

Outcome(res, gs, ui, deposit, payout, penalty) ==
    [res |-> res, gs |-> gs, ui |-> ui,
     deposit |-> deposit, payout |-> payout, penalty |-> penalty]
Ok(gs, ui, deposit, payout, penalty) == Outcome("Ok", gs, ui, deposit, payout, penalty)
Err(code, gs, ui) == Outcome(code, gs, ui, 0, 0, 0)

\* what a referral credit added to the referrer's rewards, to its
\* total_referral_rewards and to its referral_count
Credited(op, user, out) ==
    IF op = "update_referrer_rewards"
    THEN <<out.ui.rewards - user_info[user].rewards,
           out.ui.total_referral_rewards - user_info[user].total_referral_rewards,
           out.ui.referral_count - user_info[user].referral_count>>
    ELSE <<0, 0, 0>>

\* the instructions that open with the settlement block and move
\* last_stake_time
SettlingOps == {"stake", "unstake", "claim_rewards", "compound_rewards"}

\* the settlement block of instruction op found an accrual whose sum with
\* the pending reward leaves the quantity type, and left rewards as it was
SettlementSkipped(op, user) ==
    /\ op \in SettlingOps
    /\ user_info[user].staked_amount > 0
    /\ clock > user_info[user].last_stake_time
    /\ checked_add(user_info[user].rewards,
                   calculate_reward(user_info[user].staked_amount,
                                    clock - user_info[user].last_stake_time,
                                    global_state.reward_rate)) = None

\* the settlement block of instruction op computed an accrual for an
\* interval that began under another reward_rate than the present one
SettledAcrossRates(op, user) ==
    /\ op \in SettlingOps
    /\ user_info[user].staked_amount > 0
    /\ clock > user_info[user].last_stake_time
    /\ history.anchor_rate[user] # global_state.reward_rate

Record(op, user, amount, out) ==
    [op |-> op, user |-> user, amount |-> amount, res |-> out.res,
     deposit |-> out.deposit, payout |-> out.payout, penalty |-> out.penalty,
     credited |-> Credited(op, user, out),
     skipped |-> SettlementSkipped(op, user),
     rerated |-> SettledAcrossRates(op, user)]

\* --------------------------------------------------------------- handlers
initialize(authority, reward_rate, unlock_duration, early_unstake_penalty, min_stake_amount, referral_reward_rate, current_time) ==
    [authority |-> authority,
     reward_rate |-> reward_rate,
     unlock_duration |-> unlock_duration,
     early_unstake_penalty |-> early_unstake_penalty,
     min_stake_amount |-> min_stake_amount,
     referral_reward_rate |-> referral_reward_rate,
     total_staked |-> 0,
     stakers_count |-> 0,
     reward_pool |-> 0,
     last_update_time |-> current_time]

\* register_user that counts the referral on the new account itself
register_user_counts_itself(owner, referrer) ==
    [owner |-> owner, staked_amount |-> 0, rewards |-> 0,
     last_stake_time |-> 0, last_claim_time |-> 0, referrer |-> referrer,
     referral_count |-> IF referrer = None THEN 0 ELSE 1,
     total_referral_rewards |-> 0]

register_user(owner, referrer) ==
    [owner |-> owner, staked_amount |-> 0, rewards |-> 0,
     last_stake_time |-> 0, last_claim_time |-> 0, referrer |-> referrer,
     referral_count |-> 0, total_referral_rewards |-> 0]

\* stake without the min_stake_amount check
stake_accepts_any_amount(gs, ui, amount, current_time, user_balance) ==
    IF user_balance < amount THEN Err("TransferFailed", gs, ui)
    ELSE
    LET rewards == settle_rewards(ui, gs.reward_rate, current_time)
        is_new_staker == ui.staked_amount = 0
        ui1 == [ui EXCEPT
                  !.rewards = rewards,
                  !.staked_amount = unwrap_or(checked_add(@, amount), @),
                  !.last_stake_time = current_time]
        gs1 == [gs EXCEPT
                  !.total_staked = unwrap_or(checked_add(@, amount), @),
                  !.stakers_count = IF is_new_staker
                                    THEN unwrap_or(checked_add(@, 1), @)
                                    ELSE @,
                  !.last_update_time = current_time]
    IN  Ok(gs1, ui1, amount, 0, 0)

stake(gs, ui, amount, current_time, user_balance) ==
    IF ~(amount >= gs.min_stake_amount) THEN Err("AmountTooSmall", gs, ui)
    ELSE IF user_balance < amount THEN Err("TransferFailed", gs, ui)
    ELSE
    LET rewards == settle_rewards(ui, gs.reward_rate, current_time)
        is_new_staker == ui.staked_amount = 0
        ui1 == [ui EXCEPT
                  !.rewards = rewards,
                  !.staked_amount = unwrap_or(checked_add(@, amount), @),
                  !.last_stake_time = current_time]
        gs1 == [gs EXCEPT
                  !.total_staked = unwrap_or(checked_add(@, amount), @),
                  !.stakers_count = IF is_new_staker
                                    THEN unwrap_or(checked_add(@, 1), @)
                                    ELSE @,
                  !.last_update_time = current_time]
    IN  Ok(gs1, ui1, amount, 0, 0)

update_referrer_rewards(gs, referrer_info, staking_amount) ==
    LET referral_reward ==
            calculate_referral_reward(staking_amount, gs.referral_reward_rate)
        ri1 == [referrer_info EXCEPT
                  !.total_referral_rewards =
                      unwrap_or(checked_add(@, referral_reward), @),
                  !.rewards = unwrap_or(checked_add(@, referral_reward), @),
                  !.referral_count = unwrap_or(checked_add(@, 1), @)]
    IN  Ok(gs, ri1, 0, 0, 0)

\* unstake without the InsufficientStakedAmount check
unstake_accepts_any_amount(gs, ui, amount, current_time, vault_balance) ==
    LET rewards == settle_rewards(ui, gs.reward_rate, current_time)
        time_staked == current_time - ui.last_stake_time
        penalty == early_unstake_penalty_for(amount, time_staked,
                       gs.unlock_duration, gs.early_unstake_penalty)
        withdraw_amount == unwrap_or(checked_sub(amount, penalty), 0)
        staked1 == unwrap_or(checked_sub(ui.staked_amount, amount), 0)
        ui1 == [ui EXCEPT
                  !.rewards = rewards,
                  !.staked_amount = staked1,
                  !.last_stake_time = current_time]
        gs1 == [gs EXCEPT
                  !.total_staked = unwrap_or(checked_sub(@, amount), 0),
                  !.stakers_count = IF staked1 = 0
                                    THEN unwrap_or(checked_sub(@, 1), 0)
                                    ELSE @,
                  !.last_update_time = current_time,
                  !.reward_pool = unwrap_or(checked_add(@, penalty), @)]
    IN  IF vault_balance < withdraw_amount THEN Err("TransferFailed", gs, ui)
        ELSE Ok(gs1, ui1, 0, withdraw_amount, penalty)

\* unstake whose settlement outlives the failed transfer
unstake_keeps_settlement(gs, ui, amount, current_time, vault_balance) ==
    LET rewards == settle_rewards(ui, gs.reward_rate, current_time)
        time_staked == current_time - ui.last_stake_time
        penalty == early_unstake_penalty_for(amount, time_staked,
                       gs.unlock_duration, gs.early_unstake_penalty)
        withdraw_amount == unwrap_or(checked_sub(amount, penalty), 0)
        staked1 == unwrap_or(checked_sub(ui.staked_amount, amount), 0)
        ui1 == [ui EXCEPT
                  !.rewards = rewards,
                  !.staked_amount = staked1,
                  !.last_stake_time = current_time]
        gs1 == [gs EXCEPT
                  !.total_staked = unwrap_or(checked_sub(@, amount), 0),
                  !.stakers_count = IF staked1 = 0
                                    THEN unwrap_or(checked_sub(@, 1), 0)
                                    ELSE @,
                  !.last_update_time = current_time,
                  !.reward_pool = unwrap_or(checked_add(@, penalty), @)]
    IN  IF ~(amount <= ui.staked_amount)
        THEN Err("InsufficientStakedAmount", gs, ui)
        ELSE IF vault_balance < withdraw_amount THEN Err("TransferFailed", gs, [ui EXCEPT !.rewards = rewards])
        ELSE Ok(gs1, ui1, 0, withdraw_amount, penalty)

unstake(gs, ui, amount, current_time, vault_balance) ==
    LET rewards == settle_rewards(ui, gs.reward_rate, current_time)
        time_staked == current_time - ui.last_stake_time
        penalty == early_unstake_penalty_for(amount, time_staked,
                       gs.unlock_duration, gs.early_unstake_penalty)
        withdraw_amount == unwrap_or(checked_sub(amount, penalty), 0)
        staked1 == unwrap_or(checked_sub(ui.staked_amount, amount), 0)
        ui1 == [ui EXCEPT
                  !.rewards = rewards,
                  !.staked_amount = staked1,
                  !.last_stake_time = current_time]
        gs1 == [gs EXCEPT
                  !.total_staked = unwrap_or(checked_sub(@, amount), 0),
                  !.stakers_count = IF staked1 = 0
                                    THEN unwrap_or(checked_sub(@, 1), 0)
                                    ELSE @,
                  !.last_update_time = current_time,
                  !.reward_pool = unwrap_or(checked_add(@, penalty), @)]
    IN  IF ~(amount <= ui.staked_amount)
        THEN Err("InsufficientStakedAmount", gs, ui)
        ELSE IF vault_balance < withdraw_amount THEN Err("TransferFailed", gs, ui)
        ELSE Ok(gs1, ui1, 0, withdraw_amount, penalty)

\* claim_rewards without the reset of last_stake_time
claim_rewards_keeps_anchor(gs, ui, current_time, vault_balance) ==
    LET rewards_to_claim == settle_rewards(ui, gs.reward_rate, current_time)
        ui1 == [ui EXCEPT !.rewards = 0, !.last_claim_time = current_time]
        gs1 == [gs EXCEPT
                  !.reward_pool = unwrap_or(checked_sub(@, rewards_to_claim), 0),
                  !.last_update_time = current_time]
    IN  IF ~(rewards_to_claim > 0) THEN Err("NoRewardsToClaim", gs, ui)
        ELSE IF ~(rewards_to_claim <= gs.reward_pool)
        THEN Err("InsufficientRewardPool", gs, ui)
        ELSE IF vault_balance < rewards_to_claim THEN Err("TransferFailed", gs, ui)
        ELSE Ok(gs1, ui1, 0, rewards_to_claim, 0)

\* claim_rewards without the NoRewardsToClaim check
claim_rewards_accepts_zero(gs, ui, current_time, vault_balance) ==
    LET rewards_to_claim == settle_rewards(ui, gs.reward_rate, current_time)
        ui1 == [ui EXCEPT
                  !.rewards = 0,
                  !.last_claim_time = current_time,
                  !.last_stake_time = current_time]
        gs1 == [gs EXCEPT
                  !.reward_pool = unwrap_or(checked_sub(@, rewards_to_claim), 0),
                  !.last_update_time = current_time]
    IN  IF ~(rewards_to_claim <= gs.reward_pool)
        THEN Err("InsufficientRewardPool", gs, ui)
        ELSE IF vault_balance < rewards_to_claim THEN Err("TransferFailed", gs, ui)
        ELSE Ok(gs1, ui1, 0, rewards_to_claim, 0)

\* claim_rewards whose settlement outlives the InsufficientRewardPool error
claim_rewards_keeps_settlement(gs, ui, current_time, vault_balance) ==
    LET rewards_to_claim == settle_rewards(ui, gs.reward_rate, current_time)
        ui1 == [ui EXCEPT
                  !.rewards = 0,
                  !.last_claim_time = current_time,
                  !.last_stake_time = current_time]
        gs1 == [gs EXCEPT
                  !.reward_pool = unwrap_or(checked_sub(@, rewards_to_claim), 0),
                  !.last_update_time = current_time]
    IN  IF ~(rewards_to_claim > 0) THEN Err("NoRewardsToClaim", gs, ui)
        ELSE IF ~(rewards_to_claim <= gs.reward_pool)
        THEN Err("InsufficientRewardPool", gs,
                 [ui EXCEPT !.rewards = rewards_to_claim])
        ELSE IF vault_balance < rewards_to_claim THEN Err("TransferFailed", gs, ui)
        ELSE Ok(gs1, ui1, 0, rewards_to_claim, 0)

claim_rewards(gs, ui, current_time, vault_balance) ==
    LET rewards_to_claim == settle_rewards(ui, gs.reward_rate, current_time)
        ui1 == [ui EXCEPT
                  !.rewards = 0,
                  !.last_claim_time = current_time,
                  !.last_stake_time = current_time]
        gs1 == [gs EXCEPT
                  !.reward_pool = unwrap_or(checked_sub(@, rewards_to_claim), 0),
                  !.last_update_time = current_time]
    IN  IF ~(rewards_to_claim > 0) THEN Err("NoRewardsToClaim", gs, ui)
        ELSE IF ~(rewards_to_claim <= gs.reward_pool)
        THEN Err("InsufficientRewardPool", gs, ui)
        ELSE IF vault_balance < rewards_to_claim THEN Err("TransferFailed", gs, ui)
        ELSE Ok(gs1, ui1, 0, rewards_to_claim, 0)

\* compound_rewards leaving last_stake_time where it was
compound_rewards_keeps_anchor(gs, ui, current_time) ==
    LET rewards_to_compound == settle_rewards(ui, gs.reward_rate, current_time)
        ui1 == [ui EXCEPT
                  !.staked_amount = unwrap_or(checked_add(@, rewards_to_compound), @),
                  !.rewards = 0]
        gs1 == [gs EXCEPT
                  !.total_staked = unwrap_or(checked_add(@, rewards_to_compound), @),
                  !.last_update_time = current_time]
    IN  IF ~(rewards_to_compound > 0) THEN Err("NoRewardsToClaim", gs, ui)
        ELSE Ok(gs1, ui1, 0, 0, 0)

compound_rewards(gs, ui, current_time) ==
    LET rewards_to_compound == settle_rewards(ui, gs.reward_rate, current_time)
        ui1 == [ui EXCEPT
                  !.staked_amount = unwrap_or(checked_add(@, rewards_to_compound), @),
                  !.rewards = 0,
                  !.last_stake_time = current_time]
        gs1 == [gs EXCEPT
                  !.total_staked = unwrap_or(checked_add(@, rewards_to_compound), @),
                  !.last_update_time = current_time]
    IN  IF ~(rewards_to_compound > 0) THEN Err("NoRewardsToClaim", gs, ui)
        ELSE Ok(gs1, ui1, 0, 0, 0)

add_to_reward_pool(gs, amount, current_time, authority_balance) ==
    IF authority_balance < amount THEN Err("TransferFailed", gs, <<>>)
    ELSE Ok([gs EXCEPT
               !.reward_pool = unwrap_or(checked_add(@, amount), @),
               !.last_update_time = current_time],
            <<>>, amount, 0, 0)

\* update_parameters whose caps exclude the maximum itself
update_parameters_strict_caps(gs, reward_rate, unlock_duration, early_unstake_penalty, min_stake_amount, referral_reward_rate, current_time) ==
    LET gs1 == [gs EXCEPT !.reward_rate = unwrap_or(reward_rate, @)]
        gs2 == [gs1 EXCEPT !.unlock_duration = unwrap_or(unlock_duration, @)]
        gs3 == [gs2 EXCEPT !.early_unstake_penalty = unwrap_or(early_unstake_penalty, @)]
        gs4 == [gs3 EXCEPT !.min_stake_amount = unwrap_or(min_stake_amount, @)]
        gs5 == [gs4 EXCEPT !.referral_reward_rate = unwrap_or(referral_reward_rate, @)]
    IN  IF early_unstake_penalty # None
           /\ ~(early_unstake_penalty[1] < MAX_EARLY_UNSTAKE_PENALTY)
        THEN Err("PenaltyTooHigh", gs, <<>>)
        ELSE IF referral_reward_rate # None
                /\ ~(referral_reward_rate[1] < MAX_REFERRAL_REWARD_RATE)
        THEN Err("ReferralRateTooHigh", gs, <<>>)
        ELSE Ok([gs5 EXCEPT !.last_update_time = current_time], <<>>, 0, 0, 0)

\* update_parameters whose earlier writes outlive a rejected rate
update_parameters_keeps_partial(gs, reward_rate, unlock_duration, early_unstake_penalty, min_stake_amount, referral_reward_rate, current_time) ==
    LET gs1 == [gs EXCEPT !.reward_rate = unwrap_or(reward_rate, @)]
        gs2 == [gs1 EXCEPT !.unlock_duration = unwrap_or(unlock_duration, @)]
        gs3 == [gs2 EXCEPT !.early_unstake_penalty = unwrap_or(early_unstake_penalty, @)]
        gs4 == [gs3 EXCEPT !.min_stake_amount = unwrap_or(min_stake_amount, @)]
        gs5 == [gs4 EXCEPT !.referral_reward_rate = unwrap_or(referral_reward_rate, @)]
    IN  IF early_unstake_penalty # None
           /\ ~(early_unstake_penalty[1] <= MAX_EARLY_UNSTAKE_PENALTY)
        THEN Err("PenaltyTooHigh", gs2, <<>>)
        ELSE IF referral_reward_rate # None
                /\ ~(referral_reward_rate[1] <= MAX_REFERRAL_REWARD_RATE)
        THEN Err("ReferralRateTooHigh", gs4, <<>>)
        ELSE Ok([gs5 EXCEPT !.last_update_time = current_time], <<>>, 0, 0, 0)

\* update_parameters that clears the tunables the request omits
update_parameters_resets_omitted(gs, reward_rate, unlock_duration, early_unstake_penalty, min_stake_amount, referral_reward_rate, current_time) ==
    LET gs1 == [gs EXCEPT !.reward_rate = unwrap_or(reward_rate, 0)]
        gs2 == [gs1 EXCEPT !.unlock_duration = unwrap_or(unlock_duration, 0)]
        gs3 == [gs2 EXCEPT !.early_unstake_penalty = unwrap_or(early_unstake_penalty, 0)]
        gs4 == [gs3 EXCEPT !.min_stake_amount = unwrap_or(min_stake_amount, 0)]
        gs5 == [gs4 EXCEPT !.referral_reward_rate = unwrap_or(referral_reward_rate, 0)]
    IN  IF early_unstake_penalty # None
           /\ ~(early_unstake_penalty[1] <= MAX_EARLY_UNSTAKE_PENALTY)
        THEN Err("PenaltyTooHigh", gs, <<>>)
        ELSE IF referral_reward_rate # None
                /\ ~(referral_reward_rate[1] <= MAX_REFERRAL_REWARD_RATE)
        THEN Err("ReferralRateTooHigh", gs, <<>>)
        ELSE Ok([gs5 EXCEPT !.last_update_time = current_time], <<>>, 0, 0, 0)

update_parameters(gs, reward_rate, unlock_duration, early_unstake_penalty, min_stake_amount, referral_reward_rate, current_time) ==
    LET gs1 == [gs EXCEPT !.reward_rate = unwrap_or(reward_rate, @)]
        gs2 == [gs1 EXCEPT !.unlock_duration = unwrap_or(unlock_duration, @)]
        gs3 == [gs2 EXCEPT !.early_unstake_penalty = unwrap_or(early_unstake_penalty, @)]
        gs4 == [gs3 EXCEPT !.min_stake_amount = unwrap_or(min_stake_amount, @)]
        gs5 == [gs4 EXCEPT !.referral_reward_rate = unwrap_or(referral_reward_rate, @)]
    IN  IF early_unstake_penalty # None
           /\ ~(early_unstake_penalty[1] <= MAX_EARLY_UNSTAKE_PENALTY)
        THEN Err("PenaltyTooHigh", gs, <<>>)
        ELSE IF referral_reward_rate # None
                /\ ~(referral_reward_rate[1] <= MAX_REFERRAL_REWARD_RATE)
        THEN Err("ReferralRateTooHigh", gs, <<>>)
        ELSE Ok([gs5 EXCEPT !.last_update_time = current_time], <<>>, 0, 0, 0)

\* a view that still reports the lock at the very second it ends
get_user_info_locked_at_unlock(gs, ui, current_time) ==
    LET pending_rewards == settle_rewards(ui, gs.reward_rate, current_time)
        unlock_time == IF ui.staked_amount > 0
                       THEN ui.last_stake_time + gs.unlock_duration
                       ELSE 0
        time_until_unlock ==
            IF current_time <= unlock_time /\ ui.staked_amount > 0
            THEN Some(unlock_time - current_time)
            ELSE None
    IN  [owner |-> ui.owner,
         staked_amount |-> ui.staked_amount,
         pending_rewards |-> pending_rewards,
         last_stake_time |-> ui.last_stake_time,
         last_claim_time |-> ui.last_claim_time,
         referrer |-> ui.referrer,
         referral_count |-> ui.referral_count,
         total_referral_rewards |-> ui.total_referral_rewards,
         time_until_unlock |-> time_until_unlock,
         is_locked |-> time_until_unlock # None]

\* the view: the pending reward as of current_time and the lock status,
\* computed from the accounts without writing them
get_user_info(gs, ui, current_time) ==
    LET pending_rewards == settle_rewards(ui, gs.reward_rate, current_time)
        unlock_time == IF ui.staked_amount > 0
                       THEN ui.last_stake_time + gs.unlock_duration
                       ELSE 0
        time_until_unlock ==
            IF current_time < unlock_time /\ ui.staked_amount > 0
            THEN Some(unlock_time - current_time)
            ELSE None
    IN  [owner |-> ui.owner,
         staked_amount |-> ui.staked_amount,
         pending_rewards |-> pending_rewards,
         last_stake_time |-> ui.last_stake_time,
         last_claim_time |-> ui.last_claim_time,
         referrer |-> ui.referrer,
         referral_count |-> ui.referral_count,
         total_referral_rewards |-> ui.total_referral_rewards,
         time_until_unlock |-> time_until_unlock,
         is_locked |-> time_until_unlock # None]

\* ---------------------------------------------- referral-tracker handlers
REFERRER_FEE_PERCENT == 5
STAKING_FEE_PERCENT == 2
MARKETING_FEE_PERCENT == 1

\* u64::checked_mul
checked_mul(a, b) == IF a * b > U64_MAX THEN None ELSE Some(a * b)

\* a zeroed ReferralProgram, UserInfo and ReferredUser, as `init` leaves them;
\* a referral code is the sequence of its characters
ReferralProgramDefault ==
    [authority |-> "", total_referred_amount |-> 0,
     total_referral_rewards |-> 0, referrer_count |-> 0]
TrackerUserInfoDefault ==
    [authority |-> "", referral_code |-> <<>>, total_referred |-> 0,
     total_rewards_earned |-> 0, claimable_rewards |-> 0, referred_count |-> 0]
ReferredUserDefault == [authority |-> "", referrer |-> None]

\* the accounts of the tracker before the program is initialized
NoTracker ==
    [initialized |-> FALSE,
     referral_program |-> ReferralProgramDefault,
     user_info |-> <<>>,
     referred_user |-> <<>>,
     referral_entry |-> <<>>,
     token_vault |-> 0,
     token_account |-> [u \in Users |-> 0],
     unix_timestamp |-> 0,
     steps |-> 0,
     last |-> [op |-> "none", signer |-> "", wallet |-> "", referrer |-> "",
               amount |-> 0, referral_code |-> <<>>, res |-> "Ok"]]

\* the accounts a tracker handler leaves and its result; the runtime keeps
\* the accounts it was given when the result is an error
TrackerOk(t) == [res |-> "Ok", t |-> t]
TrackerErr(code, t) == [res |-> code, t |-> t]

\* f with key k set to v, k created if absent
Put(f, k, v) == [x \in DOMAIN f \cup {k} |-> IF x = k THEN v ELSE f[x]]

tracker_initialize(t, authority) ==
    TrackerOk([t EXCEPT !.initialized = TRUE,
                        !.referral_program =
                            [authority |-> authority,
                             total_referred_amount |-> 0,
                             total_referral_rewards |-> 0,
                             referrer_count |-> 0]])

\* user_info is init_if_needed at the signer's derived address
register_referral_code(t, signer, referral_code) ==
    LET user == IF signer \in DOMAIN t.user_info THEN t.user_info[signer]
                ELSE TrackerUserInfoDefault
        referrer_count == checked_add(t.referral_program.referrer_count, 1)
    IN  IF referral_code = <<>> THEN TrackerErr("EmptyReferralCode", t)
        ELSE IF Len(referral_code) > 10 THEN TrackerErr("ReferralCodeTooLong", t)
        ELSE IF user.referral_code # <<>>
        THEN TrackerErr("ReferralCodeAlreadyExists", t)
        ELSE IF referrer_count = None THEN TrackerErr("MathOverflow", t)
        ELSE TrackerOk([t EXCEPT
                 !.user_info = Put(t.user_info, signer,
                     [user EXCEPT !.authority = signer,
                                  !.referral_code = referral_code,
                                  !.total_referred = 0,
                                  !.total_rewards_earned = 0,
                                  !.referred_count = 0]),
                 !.referral_program.referrer_count = referrer_count[1]])

\* record_referral rebinding the referred user on every call
record_referral_rebinds(t, referred_user_wallet, referrer, amount, referral_code) ==
    LET referrer_info == t.user_info[referrer]
        reward == (amount * REFERRER_FEE_PERCENT) \div 100
    IN  IF amount = 0 THEN TrackerErr("ZeroAmount", t)
        ELSE IF amount * REFERRER_FEE_PERCENT > U64_MAX
        THEN TrackerErr("MathOverflow", t)
        ELSE TrackerOk([t EXCEPT
                 !.referred_user = Put(t.referred_user, referred_user_wallet,
                     [authority |-> referred_user_wallet,
                      referrer |-> Some(referrer_info.authority)]),
                 !.user_info[referrer].total_rewards_earned =
                     (@ + reward) % (U64_MAX + 1)])

\* record_referral crediting the reward to claimable_rewards as well
record_referral_credits_claimable(t, referred_user_wallet, referrer, amount, referral_code) ==
    LET reward == (amount * REFERRER_FEE_PERCENT) \div 100
    IN  IF amount = 0 THEN TrackerErr("ZeroAmount", t)
        ELSE IF amount * REFERRER_FEE_PERCENT > U64_MAX
        THEN TrackerErr("MathOverflow", t)
        ELSE TrackerOk([t EXCEPT
                 !.user_info[referrer].claimable_rewards =
                     (@ + reward) % (U64_MAX + 1)])

\* referred_user is init_if_needed at the referred wallet's derived address
record_referral(t, referred_user_wallet, referrer, amount, referral_code) ==
    LET referrer_info == t.user_info[referrer]
        referred_user ==
            IF referred_user_wallet \in DOMAIN t.referred_user
            THEN t.referred_user[referred_user_wallet]
            ELSE ReferredUserDefault
        first == referred_user.referrer = None
        bound == IF first
                 THEN [authority |-> referred_user_wallet,
                       referrer |-> Some(referrer_info.authority)]
                 ELSE referred_user
        product == checked_mul(amount, REFERRER_FEE_PERCENT)
        referrer_reward == product[1] \div 100
        total_referred == checked_add(referrer_info.total_referred, amount)
        total_rewards_earned ==
            checked_add(referrer_info.total_rewards_earned, referrer_reward)
        referred_count == checked_add(referrer_info.referred_count, 1)
        total_referred_amount ==
            checked_add(t.referral_program.total_referred_amount, amount)
        total_referral_rewards ==
            checked_add(t.referral_program.total_referral_rewards,
                        referrer_reward)
        key == <<referrer_info.authority, referred_user_wallet, t.unix_timestamp>>
    IN  IF amount = 0 THEN TrackerErr("ZeroAmount", t)
        ELSE IF referral_code = <<>> THEN TrackerErr("EmptyReferralCode", t)
        ELSE IF first /\ referrer_info.authority = referred_user_wallet
        THEN TrackerErr("SelfReferral", t)
        ELSE IF ~first /\ referred_user.referrer[1] # referrer_info.authority
        THEN TrackerErr("ReferrerMismatch", t)
        ELSE IF product = None THEN TrackerErr("MathOverflow", t)
        ELSE IF total_referred = None \/ total_rewards_earned = None
                \/ referred_count = None \/ total_referred_amount = None
                \/ total_referral_rewards = None
        THEN TrackerErr("MathOverflow", t)
        ELSE TrackerOk([t EXCEPT
                 !.referred_user = Put(t.referred_user, referred_user_wallet, bound),
                 !.user_info[referrer] =
                     [referrer_info EXCEPT
                         !.total_referred = total_referred[1],
                         !.total_rewards_earned = total_rewards_earned[1],
                         !.referred_count = referred_count[1]],
                 !.referral_program.total_referred_amount =
                     total_referred_amount[1],
                 !.referral_program.total_referral_rewards =
                     total_referral_rewards[1],
                 !.referral_entry = Put(t.referral_entry, key,
                     [referrer |-> referrer_info.authority,
                      referred |-> referred_user_wallet,
                      amount |-> amount,
                      reward |-> referrer_reward,
                      timestamp |-> t.unix_timestamp])])

\* the three fees are computed and logged; no account is written
distribute_fees(t, amount) ==
    LET referrer_product == checked_mul(amount, REFERRER_FEE_PERCENT)
        staking_product == checked_mul(amount, STAKING_FEE_PERCENT)
        marketing_product == checked_mul(amount, MARKETING_FEE_PERCENT)
    IN  IF amount = 0 THEN TrackerErr("ZeroAmount", t)
        ELSE IF referrer_product = None \/ staking_product = None
                \/ marketing_product = None
        THEN TrackerErr("MathOverflow", t)
        ELSE TrackerOk(t)

\* claim_rewards of the tracker: the referrer draws on its claimable_rewards
tracker_claim_rewards(t, signer, referrer, amount) ==
    LET referrer_info == t.user_info[referrer]
        claimable_rewards == checked_sub(referrer_info.claimable_rewards, amount)
    IN  IF amount = 0 THEN TrackerErr("ZeroAmount", t)
        ELSE IF ~(referrer_info.claimable_rewards >= amount)
        THEN TrackerErr("InsufficientRewards", t)
        ELSE IF claimable_rewards = None THEN TrackerErr("MathOverflow", t)
        ELSE IF t.token_vault < amount THEN TrackerErr("InsufficientFunds", t)
        ELSE TrackerOk([t EXCEPT
                 !.user_info[referrer].claimable_rewards = claimable_rewards[1],
                 !.token_vault = @ - amount,
                 !.token_account[signer] = @ + amount])

\* the owner of a code is logged; no account is written
lookup_referral_code(t, referral_code) ==
    IF referral_code = <<>> THEN TrackerErr("EmptyReferralCode", t)
    ELSE TrackerOk(t)

\* ----------------------------------------------------------------- inputs
Quantum == (U64_MAX + 1) \div 4
Amounts == {0, Quantum}
ReferredAmounts == {Quantum, U64_MAX}
PoolAmounts == {Quantum}
ClockSteps == {seconds_in_day, 2 * seconds_in_day}

\* initialize takes its five parameters as given
InitConfigs ==
    { <<BPS_DENOMINATOR, seconds_in_day, 1000, Quantum, MAX_REFERRAL_REWARD_RATE>>,
      <<15000, seconds_in_day, 15000, 0, BPS_DENOMINATOR>> }

\* update_parameters requests: each of the five tunables is optional
ParamRequests ==
    { <<Some(5000), None, Some(MAX_EARLY_UNSTAKE_PENALTY), Some(Quantum),
        Some(MAX_REFERRAL_REWARD_RATE)>>,
      <<None, None, Some(MAX_EARLY_UNSTAKE_PENALTY + 1), None, None>>,
      <<Some(0), Some(0), None, None, Some(MAX_REFERRAL_REWARD_RATE + 1)>> }

\* registration requests: an owner and the referrer it names
Registrations == { <<"u1", None>>, <<"u2", Some("u1")>>, <<"u2", None>> }
Callers == {MintAuthority, "u2"}

\* token balances before the program is deployed; the mint's supply is a u64
InitialWallet == [s \in Signers |->
    IF s = MintAuthority THEN 2 * Quantum - 1 ELSE Quantum]

NoOutcome == [op |-> "none", user |-> "", amount |-> 0, res |-> "Ok",
              deposit |-> 0, payout |-> 0, penalty |-> 0,
              credited |-> <<0, 0, 0>>, skipped |-> FALSE, rerated |-> FALSE]

\* no account has deposited or anchored its accrual yet
NoHistory == [deposited |-> {}, anchor_rate |-> [u \in Users |-> 0]]

\* no calculator has been run on its own
NoCalc == [fn |-> "none", amount |-> 0, rate |-> 0, time |-> 0, unlock |-> 0,
           result |-> 0, rest |-> 0, prev_time |-> 0, prev_result |-> 0,
           runs |-> 0]

\* ------------------------------------------------------------------- Init
Init ==
    /\ initialized = FALSE
    /\ global_state = GlobalStateDefault
    /\ user_info = <<>>
    /\ clock = 0
    /\ wallet = InitialWallet
    /\ vault = 0
    /\ last = NoOutcome
    /\ steps = 0
    /\ calc = NoCalc
    /\ due = <<>>
    /\ history = NoHistory
    /\ tracker = NoTracker

\* ---------------------------------------------------------------- actions
\* the explored runs are MaxSteps long
Step ==
    /\ steps < MaxSteps
    /\ steps' = steps + 1
    /\ UNCHANGED <<calc, tracker>>

\* the runtime's clock moves on between instructions
AdvanceClock(d) ==
    /\ Step
    /\ clock' = clock + d
    /\ UNCHANGED <<initialized, global_state, user_info, wallet, vault, last, due, history>>

\* Initialize<'info>: global_state is `init`, the signer is the mint authority
Initialize(reward_rate, unlock_duration, early_unstake_penalty, min_stake_amount, referral_reward_rate) ==
    /\ Step
    /\ ~initialized
    /\ initialized' = TRUE
    /\ global_state' = initialize(MintAuthority, reward_rate, unlock_duration,
                           early_unstake_penalty, min_stake_amount,
                           referral_reward_rate, clock)
    /\ last' = [NoOutcome EXCEPT !.op = "initialize", !.user = MintAuthority]
    /\ UNCHANGED <<user_info, clock, wallet, vault, due, history>>

\* RegisterUser with user_info declared init_if_needed: an existing account
\* is handed to the handler again
RegisterUserIfNeeded(owner, referrer) ==
    /\ Step
    /\ user_info' = [o \in DOMAIN user_info \cup {owner} |->
                       IF o = owner THEN register_user(owner, referrer)
                       ELSE user_info[o]]
    /\ last' = [NoOutcome EXCEPT !.op = "register_user", !.user = owner]
    /\ UNCHANGED <<initialized, global_state, clock, wallet, vault, due, history>>

\* RegisterUser<'info>: user_info is `init` at the owner's derived address
RegisterUser(owner, referrer) ==
    /\ Step
    /\ IF owner \in DOMAIN user_info
       THEN /\ last' = [NoOutcome EXCEPT !.op = "register_user", !.user = owner,
                                         !.res = "AlreadyInUse"]
            /\ UNCHANGED user_info
       ELSE /\ user_info' = [o \in DOMAIN user_info \cup {owner} |->
                               IF o = owner THEN register_user(owner, referrer)
                               ELSE user_info[o]]
            /\ last' = [NoOutcome EXCEPT !.op = "register_user", !.user = owner]
    /\ UNCHANGED <<initialized, global_state, clock, wallet, vault, due, history>>

\* s without its first element equal to e
RECURSIVE RemoveFirst(_, _)
RemoveFirst(s, e) ==
    IF s = <<>> THEN <<>>
    ELSE IF Head(s) = e THEN Tail(s)
    ELSE <<Head(s)>> \o RemoveFirst(Tail(s), e)

\* the referral credits outstanding after instruction op on owner's account:
\* stake logs "Processing referral reward for first-time staker" when the
\* account had no principal and names a referrer, and leaves the credit to
\* a separate update_referrer_rewards instruction, which settles one
DueAfter(op, owner, amount, out) ==
    IF op = "stake" /\ out.res = "Ok"
       /\ user_info[owner].staked_amount = 0
       /\ user_info[owner].referrer # None
    THEN Append(due, <<user_info[owner].referrer[1], amount>>)
    ELSE IF op = "update_referrer_rewards" /\ out.res = "Ok"
    THEN RemoveFirst(due, <<owner, amount>>)
    ELSE due

\* what is remembered of owner's account after instruction op: a successful
\* stake of a positive amount is a deposit, and a successful settling
\* instruction sets last_stake_time under the present reward_rate
HistoryAfter(op, owner, amount, out) ==
    [deposited |->
         IF op = "stake" /\ out.res = "Ok" /\ amount > 0
         THEN history.deposited \cup {owner}
         ELSE history.deposited,
     anchor_rate |->
         IF op \in SettlingOps /\ out.res = "Ok"
         THEN [history.anchor_rate EXCEPT ![owner] =
                  IF out.ui.staked_amount > 0 THEN out.gs.reward_rate ELSE 0]
         ELSE history.anchor_rate]

\* an instruction on the signer's own user_info: the accounts are written
\* back and the tokens moved when the handler returned Ok
CommitUser(op, owner, amount, out) ==
    /\ Step
    /\ global_state' = out.gs
    /\ user_info' = [user_info EXCEPT ![owner] = out.ui]
    /\ wallet' = [wallet EXCEPT ![owner] = @ - out.deposit + out.payout]
    /\ vault' = vault + out.deposit - out.payout
    /\ last' = Record(op, owner, amount, out)
    /\ due' = DueAfter(op, owner, amount, out)
    /\ history' = HistoryAfter(op, owner, amount, out)
    /\ UNCHANGED <<initialized, clock>>

\* an instruction of the authority on global_state alone
CommitPool(op, caller, amount, out) ==
    /\ Step
    /\ global_state' = out.gs
    /\ wallet' = [wallet EXCEPT ![caller] = @ - out.deposit]
    /\ vault' = vault + out.deposit
    /\ last' = Record(op, caller, amount, out)
    /\ UNCHANGED <<initialized, user_info, clock, due, history>>

Stake(owner, amount) ==
    /\ initialized
    /\ owner \in DOMAIN user_info
    /\ CommitUser("stake", owner, amount,
           stake(global_state, user_info[owner], amount, clock, wallet[owner]))

Unstake(owner, amount) ==
    /\ initialized
    /\ owner \in DOMAIN user_info
    /\ CommitUser("unstake", owner, amount,
           unstake(global_state, user_info[owner], amount, clock, vault))

ClaimRewards(owner) ==
    /\ initialized
    /\ owner \in DOMAIN user_info
    /\ CommitUser("claim_rewards", owner, 0,
           claim_rewards(global_state, user_info[owner], clock, vault))

CompoundRewards(owner) ==
    /\ initialized
    /\ owner \in DOMAIN user_info
    /\ CommitUser("compound_rewards", owner, 0,
           compound_rewards(global_state, user_info[owner], clock))

\* UpdateReferrerRewards<'info>: any signer, any existing user_info account
UpdateReferrerRewards(caller, referrer, staking_amount) ==
    /\ initialized
    /\ referrer \in DOMAIN user_info
    /\ CommitUser("update_referrer_rewards", referrer, staking_amount,
           update_referrer_rewards(global_state, user_info[referrer], staking_amount))

\* AddToRewardPool<'info>: authority.key() == global_state.authority
AddToRewardPool(caller, amount) ==
    /\ initialized
    /\ CommitPool("add_to_reward_pool", caller, amount,
           IF caller # global_state.authority
           THEN Err("Unauthorized", global_state, <<>>)
           ELSE add_to_reward_pool(global_state, amount, clock, wallet[caller]))

\* UpdateParameters without the authority constraint
UpdateParametersByAnyone(caller, reward_rate, unlock_duration, early_unstake_penalty, min_stake_amount, referral_reward_rate) ==
    /\ initialized
    /\ CommitPool("update_parameters", caller, 0,
           update_parameters(global_state, reward_rate, unlock_duration,
               early_unstake_penalty, min_stake_amount,
               referral_reward_rate, clock))

\* UpdateParameters that first settles every account under the old rate
UpdateParametersSettling(caller, reward_rate, unlock_duration, early_unstake_penalty, min_stake_amount, referral_reward_rate) ==
    /\ initialized
    /\ Step
    /\ LET out == IF caller # global_state.authority
                  THEN Err("Unauthorized", global_state, <<>>)
                  ELSE update_parameters(global_state, reward_rate,
                           unlock_duration, early_unstake_penalty,
                           min_stake_amount, referral_reward_rate, clock)
       IN  /\ global_state' = out.gs
           /\ user_info' =
                  IF out.res # "Ok" THEN user_info
                  ELSE [o \in DOMAIN user_info |->
                           [user_info[o] EXCEPT
                               !.rewards = settle_rewards(user_info[o],
                                               global_state.reward_rate, clock),
                               !.last_stake_time = clock]]
           /\ last' = Record("update_parameters", caller, 0, out)
    /\ UNCHANGED <<initialized, clock, wallet, vault, due, history>>

\* UpdateParameters<'info>: authority.key() == global_state.authority
UpdateParameters(caller, reward_rate, unlock_duration, early_unstake_penalty, min_stake_amount, referral_reward_rate) ==
    /\ initialized
    /\ CommitPool("update_parameters", caller, 0,
           IF caller # global_state.authority
           THEN Err("Unauthorized", global_state, <<>>)
           ELSE update_parameters(global_state, reward_rate, unlock_duration,
                    early_unstake_penalty, min_stake_amount,
                    referral_reward_rate, clock))

\* GetUserInfo<'info>: global_state and the signer's user_info, read-only
GetUserInfo(owner) ==
    /\ Step
    /\ initialized
    /\ owner \in DOMAIN user_info
    /\ last' = [NoOutcome EXCEPT !.op = "get_user_info", !.user = owner]
    /\ UNCHANGED <<initialized, global_state, user_info, clock, wallet, vault,
                   due, history>>

Next ==
    \/ \E d \in ClockSteps : AdvanceClock(d)
    \/ \E c \in InitConfigs : Initialize(c[1], c[2], c[3], c[4], c[5])
    \/ \E r \in Registrations : RegisterUser(r[1], r[2])
    \/ \E o \in Users, a \in Amounts : Stake(o, a)
    \/ \E o \in Users, a \in Amounts : Unstake(o, a)
    \/ \E o \in Users : ClaimRewards(o)
    \/ \E o \in Users : CompoundRewards(o)
    \/ \E c \in Callers, r \in Users, a \in ReferredAmounts :
          UpdateReferrerRewards(c, r, a)
    \/ \E c \in Callers, a \in PoolAmounts : AddToRewardPool(c, a)
    \/ \E c \in Callers, p \in ParamRequests :
          UpdateParameters(c, p[1], p[2], p[3], p[4], p[5])
    \/ \E o \in Users : GetUserInfo(o)

Spec == Init /\ [][Next]_vars

\* ------------------------------------------------- the follow-up credit
\* the orchestrating caller issues the update_referrer_rewards instruction
\* that stake leaves to it, for the oldest qualifying first stake whose
\* referrer has an account; it does so however much else is going on
Orchestrate ==
    /\ initialized
    /\ due # <<>>
    /\ Head(due)[1] \in DOMAIN user_info
    /\ LET referrer == Head(due)[1]
           staking_amount == Head(due)[2]
           out == update_referrer_rewards(global_state, user_info[referrer],
                                          staking_amount)
       IN  /\ global_state' = out.gs
           /\ user_info' = [user_info EXCEPT ![referrer] = out.ui]
           /\ last' = Record("update_referrer_rewards", referrer,
                             staking_amount, out)
    /\ due' = Tail(due)
    /\ UNCHANGED <<initialized, clock, wallet, vault, steps, calc, history, tracker>>

LiveNext == Next \/ Orchestrate

\* the follow-up is not put off for ever
LiveSpec == Init /\ [][LiveNext]_vars /\ WF_vars(Orchestrate)

\* ------------------------------------------- the calculators on their own
\* arguments over the whole quantity type, its ends included
CalcAmounts == {0, 1, 100, Quantum, BPS_DENOMINATOR, U64_MAX}
CalcRates == {0, 100, 1000, MAX_EARLY_UNSTAKE_PENALTY, BPS_DENOMINATOR,
              15000, U64_MAX}
CalcTimes == {0, 1, seconds_in_day \div 2, seconds_in_day,
              2 * seconds_in_day, U64_MAX}
CalcUnlocks == {0, seconds_in_day}

CalcInit ==
    /\ initialized = FALSE
    /\ global_state = GlobalStateDefault
    /\ user_info = <<>>
    /\ clock = 0
    /\ wallet = InitialWallet
    /\ vault = 0
    /\ last = NoOutcome
    /\ steps = 0
    /\ calc \in {[NoCalc EXCEPT !.amount = a, !.rate = r] :
                    a \in CalcAmounts, r \in CalcRates}
    /\ due = <<>>
    /\ history = NoHistory
    /\ tracker = NoTracker

\* calculate_reward applied to the drawn amount and rate and to time_passed;
\* the previous application is kept beside the latest
CalculateReward(time_passed) ==
    /\ calc.fn \in {"none", "calculate_reward"}
    /\ calc' = [calc EXCEPT
                  !.fn = "calculate_reward",
                  !.prev_time = calc.time,
                  !.prev_result = calc.result,
                  !.time = time_passed,
                  !.result = calculate_reward(calc.amount, time_passed, calc.rate),
                  !.runs = IF @ < 2 THEN @ + 1 ELSE @]
    /\ UNCHANGED <<initialized, global_state, user_info, clock, wallet, vault,
                   last, steps, due, history, tracker>>

\* the penalty block of unstake applied to the drawn amount and rate
EarlyUnstakePenalty(time_staked, unlock_duration) ==
    /\ calc.fn \in {"none", "unstake"}
    /\ LET penalty == early_unstake_penalty_for(calc.amount, time_staked,
                          unlock_duration, calc.rate)
           withdraw_amount == unwrap_or(checked_sub(calc.amount, penalty), 0)
       IN  calc' = [calc EXCEPT
                      !.fn = "unstake",
                      !.time = time_staked,
                      !.unlock = unlock_duration,
                      !.result = penalty,
                      !.rest = withdraw_amount,
                      !.runs = 1]
    /\ UNCHANGED <<initialized, global_state, user_info, clock, wallet, vault,
                   last, steps, due, history, tracker>>

CalcNext ==
    \/ \E t \in CalcTimes : CalculateReward(t)
    \/ \E t \in CalcTimes, u \in CalcUnlocks : EarlyUnstakePenalty(t, u)

CalcSpec == CalcInit /\ [][CalcNext]_vars

\* --------------------------------------------- the referral tracker alone
\* referral codes: none, two short ones and one of eleven characters
LongCode == [i \in 1..11 |-> "x"]
Codes == {<<>>, <<"a">>, <<"b">>, LongCode}
RecordAmounts == {0, Quantum \div 4, U64_MAX}
ClaimAmounts == {0, 1}
TrackerVaultBalance == Quantum

\* the staking program's variables stay as they are
TrackerFrame ==
    UNCHANGED <<initialized, global_state, user_info, clock, wallet, vault,
                last, steps, calc, due, history>>

\* the runtime keeps a handler's writes when it returned Ok and drops them
\* otherwise
TrackerCommit(op, signer, wallet_, referrer, amount, referral_code, out) ==
    /\ tracker.steps < MaxSteps
    /\ tracker' = [(IF out.res = "Ok" THEN out.t ELSE tracker) EXCEPT
                      !.steps = tracker.steps + 1,
                      !.last = [op |-> op, signer |-> signer, wallet |-> wallet_,
                                referrer |-> referrer, amount |-> amount,
                                referral_code |-> referral_code,
                                res |-> out.res]]
    /\ TrackerFrame

TrackerAdvanceClock ==
    /\ tracker.steps < MaxSteps
    /\ tracker' = [tracker EXCEPT !.steps = @ + 1, !.unix_timestamp = @ + 1]
    /\ TrackerFrame

\* Initialize<'info>: referral_program is `init`; the vault is funded
TrackerInitialize ==
    /\ ~tracker.initialized
    /\ TrackerCommit("initialize", MintAuthority, "", "", 0, <<>>,
           tracker_initialize([tracker EXCEPT !.token_vault = TrackerVaultBalance],
                              MintAuthority))

RegisterReferralCode(signer, referral_code) ==
    /\ tracker.initialized
    /\ TrackerCommit("register_referral_code", signer, signer, "", 0,
           referral_code, register_referral_code(tracker, signer, referral_code))

\* RecordReferral<'info>: referrer_info exists and carries the code given,
\* referral_entry is `init` at (referrer, referred wallet, timestamp)
RecordReferral(signer, referred_user_wallet, referrer, amount, referral_code) ==
    /\ tracker.initialized
    /\ TrackerCommit("record_referral", signer, referred_user_wallet, referrer,
           amount, referral_code,
           IF referrer \notin DOMAIN tracker.user_info
           THEN TrackerErr("AccountNotInitialized", tracker)
           ELSE IF <<tracker.user_info[referrer].authority, referred_user_wallet,
                     tracker.unix_timestamp>> \in DOMAIN tracker.referral_entry
           THEN TrackerErr("AlreadyInUse", tracker)
           ELSE IF tracker.user_info[referrer].referral_code # referral_code
           THEN TrackerErr("InvalidReferralCode", tracker)
           ELSE record_referral(tracker, referred_user_wallet, referrer, amount,
                                referral_code))

\* DistributeFees<'info>: referred_user exists
DistributeFees(signer, referred_user_wallet, amount) ==
    /\ tracker.initialized
    /\ TrackerCommit("distribute_fees", signer, referred_user_wallet, "", amount,
           <<>>,
           IF referred_user_wallet \notin DOMAIN tracker.referred_user
           THEN TrackerErr("AccountNotInitialized", tracker)
           ELSE distribute_fees(tracker, amount))

\* ClaimRewards<'info>: referrer_info.authority == user.key()
TrackerClaimRewards(signer, referrer, amount) ==
    /\ tracker.initialized
    /\ TrackerCommit("claim_rewards", signer, "", referrer, amount, <<>>,
           IF referrer \notin DOMAIN tracker.user_info
           THEN TrackerErr("AccountNotInitialized", tracker)
           ELSE IF tracker.user_info[referrer].authority # signer
           THEN TrackerErr("Unauthorized", tracker)
           ELSE tracker_claim_rewards(tracker, signer, referrer, amount))

\* LookupReferralCode<'info>: referrer_info exists and carries the code given
LookupReferralCode(signer, referrer, referral_code) ==
    /\ tracker.initialized
    /\ TrackerCommit("lookup_referral_code", signer, "", referrer, 0,
           referral_code,
           IF referrer \notin DOMAIN tracker.user_info
           THEN TrackerErr("AccountNotInitialized", tracker)
           ELSE IF tracker.user_info[referrer].referral_code # referral_code
           THEN TrackerErr("InvalidReferralCode", tracker)
           ELSE lookup_referral_code(tracker, referral_code))

TrackerNext ==
    \/ TrackerAdvanceClock
    \/ TrackerInitialize
    \/ \E u \in Users, c \in Codes : RegisterReferralCode(u, c)
    \/ \E w \in Users, r \in Users, a \in RecordAmounts, c \in Codes \ {LongCode} :
          RecordReferral(MintAuthority, w, r, a, c)
    \/ \E w \in Users : DistributeFees(MintAuthority, w, Quantum)
    \/ \E u \in Users, r \in Users, a \in ClaimAmounts : TrackerClaimRewards(u, r, a)
    \/ \E r \in Users : LookupReferralCode(MintAuthority, r, <<"a">>)

TrackerSpec == Init /\ [][TrackerNext]_vars

\* ------------------------------------------------- vocabulary of the claims
Registered == DOMAIN user_info

RECURSIVE SumOver(_, _)
SumOver(S, f) ==
    IF S = {} THEN 0
    ELSE LET x == CHOOSE y \in S : TRUE IN f[x] + SumOver(S \ {x}, f)

SumStaked == SumOver(Registered, [u \in Registered |-> user_info[u].staked_amount])
Stakers == {u \in Registered : user_info[u].staked_amount > 0}

\* this step processed instruction op on behalf of user o
Did(op, o) ==
    /\ steps' = steps + 1
    /\ clock' = clock
    /\ last'.op = op
    /\ last'.user = o
Succeeded(op, o) == Did(op, o) /\ last'.res = "Ok"

\* reward accrued by o's principal since its last_stake_time, as of the clock
Accrued(o) ==
    IF user_info[o].staked_amount > 0 /\ clock > user_info[o].last_stake_time
    THEN calculate_reward(user_info[o].staked_amount,
                          clock - user_info[o].last_stake_time,
                          global_state.reward_rate)
    ELSE 0

\* o's pending reward once settled: the accrual is added unless the sum
\* leaves the quantity type
SettledPending(o) ==
    IF user_info[o].rewards + Accrued(o) > U64_MAX
    THEN user_info[o].rewards
    ELSE user_info[o].rewards + Accrued(o)

UnchangedLedger == UNCHANGED <<initialized, global_state, user_info, wallet, vault>>

\* ------------------------------------------------------------------ claims

\* C1: after every operation total_staked equals the sum of staked_amount
\* over all registered accounts.
C1_TotalStakedIsSum == global_state.total_staked = SumStaked

\* C2: after every operation stakers_count equals the number of accounts
\* with staked_amount > 0.
C2_StakersCountIsCount == global_state.stakers_count = Cardinality(Stakers)

\* C3: a successful stake of amount a adds exactly a to the account's
\* staked_amount and to total_staked, moves a from the owner's wallet into
\* the vault and sets last_stake_time to now.
C3_StakeAddsAmount ==
    [][\A o \in Registered :
        Succeeded("stake", o) =>
            /\ user_info'[o].staked_amount = user_info[o].staked_amount + last'.amount
            /\ global_state'.total_staked = global_state.total_staked + last'.amount
            /\ wallet'[o] = wallet[o] - last'.amount
            /\ vault' = vault + last'.amount
            /\ user_info'[o].last_stake_time = clock]_vars

\* C4: a successful unstake of amount a subtracts exactly a from
\* staked_amount and from total_staked, sets last_stake_time to now, pays
\* withdraw_amount out of the vault and adds exactly the penalty to
\* reward_pool.
C4_UnstakeSubtractsAmount ==
    [][\A o \in Registered :
        Succeeded("unstake", o) =>
            /\ user_info'[o].staked_amount = user_info[o].staked_amount - last'.amount
            /\ global_state'.total_staked = global_state.total_staked - last'.amount
            /\ user_info'[o].last_stake_time = clock
            /\ vault' = vault - last'.payout
            /\ wallet'[o] = wallet[o] + last'.payout
            /\ global_state'.reward_pool = global_state.reward_pool + last'.penalty]_vars

\* C5: for every successful unstake of amount a the penalty is at most half
\* of a and withdraw_amount + penalty = a.
C5_PenaltyAtMostHalf ==
    [][\A o \in Registered :
        Succeeded("unstake", o) =>
            /\ 2 * last'.penalty <= last'.amount
            /\ last'.payout + last'.penalty = last'.amount]_vars

\* C6: in every state of the initialized pool early_unstake_penalty <= 5000
\* and referral_reward_rate <= 2000.
C6_RatesWithinCaps ==
    initialized =>
        /\ global_state.early_unstake_penalty <= MAX_EARLY_UNSTAKE_PENALTY
        /\ global_state.referral_reward_rate <= MAX_REFERRAL_REWARD_RATE

\* C7 (as stated): a successful claim pays exactly prior rewards plus
\* accrue(principal, now - last_stake_time, reward_rate), zeroes the pending
\* reward, sets last_claim_time = last_stake_time = now, lowers reward_pool
\* by the amount paid and leaves principal, total_staked and stakers_count.
C7_ClaimPaysPriorPlusAccrued ==
    [][\A o \in Registered :
        Succeeded("claim_rewards", o) =>
            /\ last'.payout = user_info[o].rewards + Accrued(o)
            /\ user_info'[o].rewards = 0
            /\ user_info'[o].last_claim_time = clock
            /\ user_info'[o].last_stake_time = clock
            /\ global_state'.reward_pool = global_state.reward_pool - last'.payout
            /\ user_info'[o].staked_amount = user_info[o].staked_amount
            /\ global_state'.total_staked = global_state.total_staked
            /\ global_state'.stakers_count = global_state.stakers_count]_vars

\* C7 (amended): a successful claim pays exactly the pending reward after
\* settlement, which is prior rewards plus the accrual unless that sum
\* overflows the quantity type, in which case it is the prior rewards alone;
\* the rest as stated.
C7_ClaimPaysSettledPending ==
    [][\A o \in Registered :
        Succeeded("claim_rewards", o) =>
            /\ last'.payout = SettledPending(o)
            /\ wallet'[o] = wallet[o] + last'.payout
            /\ vault' = vault - last'.payout
            /\ user_info'[o].rewards = 0
            /\ user_info'[o].last_claim_time = clock
            /\ user_info'[o].last_stake_time = clock
            /\ global_state'.reward_pool = global_state.reward_pool - last'.payout
            /\ user_info'[o].staked_amount = user_info[o].staked_amount
            /\ global_state'.total_staked = global_state.total_staked
            /\ global_state'.stakers_count = global_state.stakers_count]_vars

\* a claim has paid out a reward that was accrued by the principal alone
C7_Witness ==
    /\ last.op = "claim_rewards"
    /\ last.res = "Ok"
    /\ last.payout > 0
    /\ user_info[last.user].staked_amount > 0
    /\ user_info[last.user].total_referral_rewards = 0

\* C8: whenever a claim succeeds, reward_pool at that moment is at least the
\* sum of the pending rewards of all accounts, not only the claimant's.
C8_PoolCoversAllPending ==
    [][\A o \in Registered :
        Succeeded("claim_rewards", o) =>
            global_state.reward_pool >=
                SumOver(Registered, [u \in Registered |->
                    IF u = o THEN last'.payout ELSE user_info[u].rewards])]_vars

\* C9: a claim on an account whose pending reward is 0 after settlement
\* fails with NoRewardsToClaim and changes no account and no pool field.
C9_EmptyClaimRejected ==
    [][\A o \in Registered :
        (Did("claim_rewards", o) /\ user_info[o].rewards = 0 /\ Accrued(o) = 0) =>
            /\ last'.res = "NoRewardsToClaim"
            /\ UnchangedLedger]_vars

\* a staking account's claim was rejected with NoRewardsToClaim
C9_Witness ==
    /\ last.op = "claim_rewards"
    /\ last.res = "NoRewardsToClaim"
    /\ user_info[last.user].staked_amount > 0

\* C10: a claim whose settled pending reward is positive but exceeds
\* reward_pool fails with InsufficientRewardPool and changes nothing: the
\* stored rewards and last_stake_time are as before, so the settled pending
\* reward a later claim finds is the same.
C10_UnfundedClaimRejected ==
    [][\A o \in Registered :
        (Did("claim_rewards", o) /\ SettledPending(o) > 0
            /\ SettledPending(o) > global_state.reward_pool) =>
            /\ last'.res = "InsufficientRewardPool"
            /\ UnchangedLedger
            /\ SettledPending(o)' = SettledPending(o)]_vars

\* a claim that had accrual to settle was rejected with InsufficientRewardPool
C10_Witness ==
    /\ last.op = "claim_rewards"
    /\ last.res = "InsufficientRewardPool"
    /\ Accrued(last.user) > 0

\* C11: after a successful stake, unstake, claim or compound on an account
\* at timestamp t, settling that account again at t adds no reward: both
\* the settlement block of a further operation and the get_user_info view
\* find the pending reward that is stored.
C11_SettledOnceAtATimestamp ==
    [][\A o \in Registered : \A op \in SettlingOps :
        Succeeded(op, o) =>
            /\ settle_rewards(user_info'[o], global_state'.reward_rate, clock')
                   = user_info'[o].rewards
            /\ get_user_info(global_state', user_info'[o], clock').pending_rewards
                   = user_info'[o].rewards]_vars

\* a claim has succeeded on a staking account after time had passed, and
\* the clock still shows the timestamp of that claim
C11_Witness ==
    /\ last.op = "claim_rewards"
    /\ last.res = "Ok"
    /\ clock > 0
    /\ global_state.reward_rate > 0
    /\ user_info[last.user].staked_amount > 0
    /\ user_info[last.user].last_claim_time = clock

\* ---------------------------------------------- claims on the calculators
\* the reward of one day: floor(principal * rate / 10000)
DailyReward(principal, rate) == (principal * rate) \div BPS_DENOMINATOR

\* the product of the daily reward and the elapsed time fits the wide type
\* and the reward fits the quantity type
RewardInRange(principal, elapsed, rate) ==
    /\ checked_mul_u128(DailyReward(principal, rate), elapsed) # None
    /\ (DailyReward(principal, rate) * elapsed) \div seconds_in_day <= U64_MAX

\* floor(floor(principal * rate / 10000) * elapsed / seconds of a day)
RewardFormula(principal, elapsed, rate) ==
    (DailyReward(principal, rate) * elapsed) \div seconds_in_day

RewardCalculated == calc.fn = "calculate_reward" /\ calc.runs >= 1

\* C12 as stated: calculate_reward equals the formula for all inputs, and is
\* 0 when elapsed = 0 or principal = 0.
C12_RewardIsFormula ==
    RewardCalculated =>
        /\ calc.result = RewardFormula(calc.amount, calc.time, calc.rate)
        /\ (calc.time = 0 \/ calc.amount = 0) => calc.result = 0

\* C12: calculate_reward equals the formula whenever the product of the
\* daily reward and the elapsed time fits the wide type and the reward fits
\* the quantity type, and is 0 when elapsed = 0 or principal = 0.
C12_RewardIsFormulaInRange ==
    RewardCalculated =>
        /\ RewardInRange(calc.amount, calc.time, calc.rate) =>
               calc.result = RewardFormula(calc.amount, calc.time, calc.rate)
        /\ (calc.time = 0 \/ calc.amount = 0) => calc.result = 0

\* half a day at 1% a day on a principal of 10000
C12_Witness ==
    /\ RewardCalculated
    /\ calc.amount = BPS_DENOMINATOR
    /\ calc.rate = 100
    /\ calc.time = seconds_in_day \div 2
    /\ calc.result > 0
    /\ calc.result < 100

\* calculate_reward has been applied twice, the second time to a time_passed
\* at least as long as the first
RewardCalculatedLater == RewardCalculated /\ calc.runs >= 2 /\ calc.prev_time <= calc.time

\* C13 as stated: for a fixed principal and rate and all elapsed times
\* t1 <= t2, calculate_reward at t1 is at most calculate_reward at t2.
C13_RewardMonotonic ==
    RewardCalculatedLater => calc.prev_result <= calc.result

\* C13: for a fixed principal and rate and elapsed times t1 <= t2 such that
\* at t2 the product of the daily reward and the elapsed time fits the wide
\* type and the reward fits the quantity type, calculate_reward at t1 is at
\* most calculate_reward at t2.
C13_RewardMonotonicInRange ==
    (RewardCalculatedLater /\ RewardInRange(calc.amount, calc.time, calc.rate))
        => calc.prev_result <= calc.result

\* a longer time has earned strictly more
C13_Witness ==
    /\ RewardCalculatedLater
    /\ RewardInRange(calc.amount, calc.time, calc.rate)
    /\ calc.prev_time > 0
    /\ calc.prev_result > 0
    /\ calc.prev_result < calc.result

\* C14: calculate_reward never fails, and whenever the product of the daily
\* reward and the elapsed time exceeds the wide type, or the reward does not
\* fit the quantity type, it returns 0.
C14_OverflowGivesZero ==
    (RewardCalculated /\ ~RewardInRange(calc.amount, calc.time, calc.rate))
        => calc.result = 0

\* C15: the early-unstake penalty of an unstake of amount a is 0 when the
\* time since last_stake_time is at least unlock_duration, whatever the
\* penalty rate, and floor(a * early_unstake_penalty / 10000) otherwise.
C15_PenaltyIsFormula ==
    calc.fn = "unstake" =>
        calc.result = IF calc.time >= calc.unlock
                      THEN 0
                      ELSE (calc.amount * calc.rate) \div BPS_DENOMINATOR

\* ------------------------------------------------ claims on the operations
\* C16: a compound at time now on an account whose settled pending reward r
\* is positive adds exactly r to staked_amount and to total_staked, sets
\* rewards to 0 and last_stake_time to now, moves no tokens and leaves
\* reward_pool unchanged; with a settled pending reward of 0 it fails with
\* NoRewardsToClaim and changes nothing.
C16_CompoundAddsPending ==
    [][\A o \in Registered :
        Did("compound_rewards", o) =>
            IF SettledPending(o) > 0
            THEN /\ last'.res = "Ok"
                 /\ user_info'[o].staked_amount =
                        user_info[o].staked_amount + SettledPending(o)
                 /\ global_state'.total_staked =
                        global_state.total_staked + SettledPending(o)
                 /\ user_info'[o].rewards = 0
                 /\ user_info'[o].last_stake_time = clock
                 /\ global_state'.reward_pool = global_state.reward_pool
                 /\ UNCHANGED <<wallet, vault>>
            ELSE /\ last'.res = "NoRewardsToClaim"
                 /\ UnchangedLedger]_vars

\* C17: a stake with amount < min_stake_amount fails with AmountTooSmall,
\* moves no tokens and leaves the account and the pool unchanged.
C17_SmallStakeRejected ==
    [][\A o \in Registered :
        (Did("stake", o) /\ last'.amount < global_state.min_stake_amount) =>
            /\ last'.res = "AmountTooSmall"
            /\ UnchangedLedger]_vars

\* a stake below a positive minimum was rejected
C17_Witness ==
    /\ last.op = "stake"
    /\ last.res = "AmountTooSmall"
    /\ last.amount < global_state.min_stake_amount

\* C18: an unstake with amount greater than the account's staked_amount
\* fails with InsufficientStakedAmount, moves no tokens and leaves the
\* account, its rewards and last_stake_time included, and the pool
\* unchanged; no unstake takes staked_amount or total_staked below zero or
\* above what it was.
C18_OverdrawnUnstakeRejected ==
    [][\A o \in Registered :
        Did("unstake", o) =>
            /\ last'.amount > user_info[o].staked_amount =>
                   /\ last'.res = "InsufficientStakedAmount"
                   /\ UnchangedLedger
            /\ user_info'[o].staked_amount \in 0..user_info[o].staked_amount
            /\ global_state'.total_staked \in 0..global_state.total_staked]_vars

\* an unstake of more than the principal was rejected while the principal
\* had accrual waiting to be settled
C18_Witness ==
    /\ last.op = "unstake"
    /\ last.res = "InsufficientStakedAmount"
    /\ last.amount > user_info[last.user].staked_amount
    /\ Accrued(last.user) > 0

\* the operations that bracket a token transfer
TransferringOps == {"stake", "unstake", "claim_rewards", "add_to_reward_pool"}

\* C19: when the token transfer of a stake, unstake, claim or
\* add_to_reward_pool fails, no account, pool or balance changes, the
\* rewards settled earlier in the call included; and whenever one of these
\* operations changes an account or the pool, it has succeeded and its
\* tokens have moved between the signer's wallet and the vault.
C19_TransferAndLedgerAreOne ==
    [][\A o \in Signers : \A op \in TransferringOps :
        Did(op, o) =>
            /\ last'.res = "TransferFailed" => UnchangedLedger
            /\ (global_state' # global_state \/ user_info' # user_info) =>
                   /\ last'.res = "Ok"
                   /\ wallet'[o] = wallet[o] - last'.deposit + last'.payout
                   /\ vault' = vault + last'.deposit - last'.payout
                   /\ wallet'[o] >= 0
                   /\ vault' >= 0]_vars

\* the transfer of an unstake failed after accrual had been settled
C19_Witness ==
    /\ last.op = "unstake"
    /\ last.res = "TransferFailed"
    /\ Accrued(last.user) > 0
    /\ SettledPending(last.user) > user_info[last.user].rewards

\* the account register_user leaves for an owner and a referrer
FreshAccount(owner, referrer) ==
    [owner |-> owner, staked_amount |-> 0, rewards |-> 0,
     last_stake_time |-> 0, last_claim_time |-> 0, referrer |-> referrer,
     referral_count |-> 0, total_referral_rewards |-> 0]

\* C20: register for an owner that already has an account fails with the
\* already-in-use error and leaves the existing account unchanged; a
\* successful register creates the account with staked_amount, rewards,
\* referral_count, total_referral_rewards and both timestamps 0 and the
\* supplied referrer stored.
C20_RegisterOnce ==
    [][\A r \in Registrations :
        RegisterUser(r[1], r[2]) =>
            IF r[1] \in Registered
            THEN /\ last'.res = "AlreadyInUse"
                 /\ UnchangedLedger
            ELSE /\ last'.res = "Ok"
                 /\ user_info'[r[1]] = FreshAccount(r[1], r[2])
                 /\ \A o \in Registered : user_info'[o] = user_info[o]]_vars

\* a second register was rejected for an owner whose account names a referrer
C20_Witness ==
    /\ last.op = "register_user"
    /\ last.res = "AlreadyInUse"
    /\ last.user \in Registered
    /\ user_info[last.user].referrer # None

\* C21: once an account is registered its referrer and its owner never
\* change, whatever instruction is processed next.
C21_ReferrerIsPermanent ==
    [][\A o \in Registered :
        /\ o \in DOMAIN user_info'
        /\ user_info'[o].referrer = user_info[o].referrer
        /\ user_info'[o].owner = user_info[o].owner
        /\ user_info'[o].owner = o]_vars

\* an account that names a referrer has staked, and a further register for
\* its owner has been attempted since
C21_Witness ==
    /\ last.op = "register_user"
    /\ last.res = "AlreadyInUse"
    /\ user_info[last.user].referrer # None
    /\ user_info[last.user].staked_amount > 0

\* floor(staked_amount * referral_reward_rate / 10000), at the pool's rate
ReferralRewardFormula(staking_amount) ==
    (staking_amount * global_state.referral_reward_rate) \div BPS_DENOMINATOR

\* C22: update_referrer_rewards(referrer, staked_amount) adds
\* floor(staked_amount * referral_reward_rate / 10000) to the referrer's
\* rewards and to its total_referral_rewards and increments its
\* referral_count by exactly 1, leaving the referrer's staked_amount and
\* timestamps and all pool fields unchanged.
C22_ReferralCreditIsFormula ==
    [][\A r \in Registered :
        Succeeded("update_referrer_rewards", r) =>
            /\ user_info'[r].rewards =
                   user_info[r].rewards + ReferralRewardFormula(last'.amount)
            /\ user_info'[r].total_referral_rewards =
                   user_info[r].total_referral_rewards
                       + ReferralRewardFormula(last'.amount)
            /\ user_info'[r].referral_count = user_info[r].referral_count + 1
            /\ user_info'[r].staked_amount = user_info[r].staked_amount
            /\ user_info'[r].last_stake_time = user_info[r].last_stake_time
            /\ user_info'[r].last_claim_time = user_info[r].last_claim_time
            /\ global_state' = global_state]_vars

\* the elements of a sequence
Range(s) == {s[i] : i \in DOMAIN s}

\* C23: a referral credit on account R for amount a happens only for a
\* qualifying first stake of amount a, by an account whose referrer is R,
\* that has not been credited yet.
C23_CreditOnlyForFirstStake ==
    [][\A r \in Registered :
        Succeeded("update_referrer_rewards", r) =>
            <<r, last'.amount>> \in Range(due)]_vars

\* crediting staking_amount to r would take one of r's referral fields out
\* of the quantity type
ReferralCreditOverflows(r, staking_amount) ==
    LET reward == calculate_referral_reward(staking_amount,
                                            global_state.referral_reward_rate)
    IN  \/ user_info[r].rewards + reward > U64_MAX
        \/ user_info[r].total_referral_rewards + reward > U64_MAX
        \/ user_info[r].referral_count + 1 > U64_MAX

\* C29: when adding the referral reward or incrementing the referral
\* counters would overflow, update_referrer_rewards fails with MathOverflow
\* and changes no state.
C29_ReferralOverflowRejected ==
    [][\A r \in Registered :
        (Did("update_referrer_rewards", r)
            /\ ReferralCreditOverflows(r, last'.amount)) =>
                /\ last'.res = "MathOverflow"
                /\ UnchangedLedger]_vars

\* C30: stake, unstake, claim, compound and update_referrer_rewards first
\* settle the accrual of the account they change: the pending reward their
\* own mutation starts from is the settled one.
C30_SettlesBeforeMutating ==
    [][\A o \in Registered :
        /\ (Succeeded("stake", o) \/ Succeeded("unstake", o)) =>
               user_info'[o].rewards = SettledPending(o)
        /\ Succeeded("claim_rewards", o) => last'.payout = SettledPending(o)
        /\ Succeeded("compound_rewards", o) =>
               user_info'[o].staked_amount =
                   unwrap_or(checked_add(user_info[o].staked_amount,
                                         SettledPending(o)),
                             user_info[o].staked_amount)
        /\ Succeeded("update_referrer_rewards", o) =>
               LET reward == calculate_referral_reward(last'.amount,
                                 global_state.referral_reward_rate)
               IN  user_info'[o].rewards =
                       unwrap_or(checked_add(SettledPending(o), reward),
                                 SettledPending(o))]_vars

\* ---------------------------------------------- claims on the configuration
\* C25: update_parameters by the authority with early_unstake_penalty > 5000
\* fails with PenaltyTooHigh, with referral_reward_rate > 2000 fails with
\* ReferralRateTooHigh, and succeeds otherwise, 5000 and 2000 included.
C25_CapsAreInclusive ==
    [][\A c \in Callers, p \in ParamRequests :
        (UpdateParameters(c, p[1], p[2], p[3], p[4], p[5])
            /\ c = global_state.authority) =>
                last'.res =
                    IF p[3] # None /\ p[3][1] > MAX_EARLY_UNSTAKE_PENALTY
                    THEN "PenaltyTooHigh"
                    ELSE IF p[5] # None /\ p[5][1] > MAX_REFERRAL_REWARD_RATE
                    THEN "ReferralRateTooHigh"
                    ELSE "Ok"]_vars

\* an update to exactly the two caps has succeeded
C25_Witness ==
    /\ last.op = "update_parameters"
    /\ last.res = "Ok"
    /\ global_state.early_unstake_penalty = MAX_EARLY_UNSTAKE_PENALTY
    /\ global_state.referral_reward_rate = MAX_REFERRAL_REWARD_RATE

\* C26: an instruction that fails changes no account, pool field or
\* balance; in particular a rejected update_parameters leaves the five
\* tunables and last_update_time as they were.
C26_FailureChangesNothing ==
    [][(steps' = steps + 1 /\ clock' = clock /\ last'.res # "Ok")
          => UnchangedLedger]_vars

\* an update that offered a new reward_rate and unlock_duration together
\* with too high a referral rate was rejected, and the pool kept its own
C26_Witness ==
    /\ last.op = "update_parameters"
    /\ last.res = "ReferralRateTooHigh"
    /\ global_state.reward_rate > 0
    /\ global_state.unlock_duration > 0

\* the configuration of the pool
Config(gs) ==
    <<gs.authority, gs.reward_rate, gs.unlock_duration,
      gs.early_unstake_penalty, gs.min_stake_amount, gs.referral_reward_rate>>

\* C27: update_parameters by a caller other than the authority fails with
\* Unauthorized and changes nothing, and the configuration of the
\* initialized pool changes only in a successful update_parameters of the
\* authority.
C27_OnlyAuthorityConfigures ==
    [][/\ \A c \in Callers :
            (Did("update_parameters", c) /\ c # global_state.authority) =>
                /\ last'.res = "Unauthorized"
                /\ UnchangedLedger
       /\ (initialized /\ Config(global_state') # Config(global_state)) =>
            /\ Succeeded("update_parameters", global_state.authority)
            /\ global_state'.authority = global_state.authority]_vars

\* an update by a caller other than the authority was rejected
C27_Witness ==
    /\ last.op = "update_parameters"
    /\ last.res = "Unauthorized"
    /\ last.user # global_state.authority

\* the value of a tunable after a request that may omit it
Requested(request, old) == IF request = None THEN old ELSE request[1]

\* C28: a successful update_parameters sets exactly the tunables for which
\* a value is supplied: every omitted tunable keeps its value, and
\* authority, total_staked, stakers_count, reward_pool, every account and
\* every balance are unchanged.
C28_UpdateSetsOnlySupplied ==
    [][\A c \in Callers, p \in ParamRequests :
        (UpdateParameters(c, p[1], p[2], p[3], p[4], p[5])
            /\ last'.res = "Ok") =>
                /\ global_state' =
                       [global_state EXCEPT
                          !.reward_rate = Requested(p[1], @),
                          !.unlock_duration = Requested(p[2], @),
                          !.early_unstake_penalty = Requested(p[3], @),
                          !.min_stake_amount = Requested(p[4], @),
                          !.referral_reward_rate = Requested(p[5], @),
                          !.last_update_time = clock]
                /\ UNCHANGED <<user_info, wallet, vault>>]_vars

\* an update that omitted unlock_duration has succeeded on a pool with
\* stakes, and the duration is still in force
C28_Witness ==
    /\ last.op = "update_parameters"
    /\ last.res = "Ok"
    /\ global_state.unlock_duration > 0
    /\ global_state.total_staked > 0

\* the oldest outstanding referral credit is for an account that exists
CreditOutstanding == due # <<>> /\ Head(due)[1] \in Registered

\* the latest instruction credited referrer r for amount a in full
CreditLanded(r, a) ==
    /\ last.op = "update_referrer_rewards"
    /\ last.res = "Ok"
    /\ last.user = r
    /\ last.amount = a
    /\ last.credited = <<ReferralRewardFormula(a), ReferralRewardFormula(a), 1>>

\* C24: after a successful first-time stake of amount a by an account whose
\* referrer is R, R's rewards and total_referral_rewards eventually
\* increase by floor(a * referral_reward_rate / 10000) and its
\* referral_count by 1.
C24_CreditEventuallyLands ==
    \A r \in Users, a \in Amounts :
        [](   (CreditOutstanding /\ Head(due) = <<r, a>>)
           => <>CreditLanded(r, a))

\* ------------------------------------------- claims on settlement and locks
\* instruction op on o's account meets every requirement of its handler,
\* taking the pending reward to be `pending`
Admissible(op, o, amount, pending) ==
    CASE op = "stake" ->
             amount >= global_state.min_stake_amount /\ wallet[o] >= amount
      [] op = "unstake" ->
             /\ amount <= user_info[o].staked_amount
             /\ vault >= unwrap_or(checked_sub(amount,
                    early_unstake_penalty_for(amount,
                        clock - user_info[o].last_stake_time,
                        global_state.unlock_duration,
                        global_state.early_unstake_penalty)), 0)
      [] op = "claim_rewards" ->
             pending > 0 /\ pending <= global_state.reward_pool /\ vault >= pending
      [] op = "compound_rewards" -> pending > 0

\* C31: when adding the newly accrued reward to the pending reward would
\* overflow, settlement skips the addition and keeps the prior pending
\* reward, and the enclosing stake, unstake, claim or compound goes on with
\* that prior value: it succeeds exactly when its own requirements are met,
\* and never fails on account of the overflow.
C31_OverflowingSettlementIsSkipped ==
    [][\A o \in Registered : \A op \in SettlingOps :
        (Did(op, o) /\ user_info[o].rewards + Accrued(o) > U64_MAX) =>
            /\ last'.res = "Ok" <=>
                   Admissible(op, o, last'.amount, user_info[o].rewards)
            /\ last'.res # "MathOverflow"
            /\ (op \in {"stake", "unstake"} /\ last'.res = "Ok") =>
                   user_info'[o].rewards = user_info[o].rewards
            /\ (op = "claim_rewards" /\ last'.res = "Ok") =>
                   /\ last'.payout = user_info[o].rewards
                   /\ user_info'[o].rewards = 0
            /\ (op = "compound_rewards" /\ last'.res = "Ok") =>
                   /\ user_info'[o].rewards = 0
                   /\ user_info'[o].staked_amount =
                          unwrap_or(checked_add(user_info[o].staked_amount,
                                                user_info[o].rewards),
                                    user_info[o].staked_amount)
            /\ last'.res # "Ok" => UnchangedLedger]_vars

\* an instruction has succeeded whose settlement skipped an overflowing
\* accrual
C31_Witness ==
    /\ last.op \in SettlingOps
    /\ last.skipped
    /\ last.res = "Ok"

\* stake treats this deposit as the account's first: is_new_staker
FlaggedFirst(o) == user_info[o].staked_amount = 0

\* C32: stake flags a deposit as the account's first ever deposit at most
\* once in the account's lifetime: an account that has deposited before,
\* whatever it has unstaked since, is not flagged again.
C32_FirstDepositFlaggedOnce ==
    [][\A o \in Registered :
        (Succeeded("stake", o) /\ last'.amount > 0 /\ FlaggedFirst(o)) =>
            o \notin history.deposited]_vars

\* ------------------------------------------------- claims on the reserve
\* this step processed an instruction
Instruction == steps' = steps + 1 /\ clock' = clock

\* C33: reward_pool changes only so: add_to_reward_pool(amount) raises it by
\* amount, a penalised unstake raises it by the penalty, a successful claim
\* lowers it by the amount paid; every other instruction leaves it, and
\* add_to_reward_pool leaves total_staked, stakers_count and every account.
C33_RewardPoolFrame ==
    [][Instruction =>
        /\ global_state'.reward_pool - global_state.reward_pool =
               IF last'.res # "Ok" THEN 0
               ELSE CASE last'.op = "add_to_reward_pool" -> last'.amount
                      [] last'.op = "unstake" -> last'.penalty
                      [] last'.op = "claim_rewards" -> 0 - last'.payout
                      [] OTHER -> 0
        /\ last'.op = "add_to_reward_pool" =>
               /\ global_state'.total_staked = global_state.total_staked
               /\ global_state'.stakers_count = global_state.stakers_count
               /\ user_info' = user_info]_vars


\* C34: custody solvency: the tokens held in the vault are at least
\* total_staked + reward_pool after any sequence of instructions.
C34_CustodySolvent ==
    vault >= global_state.total_staked + global_state.reward_pool

\* ----------------------------------------------------- claims on the lock
\* C35: the early-unstake lock runs from last_stake_time, which every
\* successful stake, unstake, claim and compound sets to now; an unstake
\* before last_stake_time + unlock_duration is penalised, whatever the age
\* of the account's first deposit: the penalty is the penalty rate applied
\* to the amount, and the amount paid out is lowered by it.
C35_LockRestartsOnEveryOp ==
    [][\A o \in Registered :
        /\ \A op \in SettlingOps :
               Succeeded(op, o) => user_info'[o].last_stake_time = clock
        /\ (Succeeded("unstake", o)
               /\ clock < user_info[o].last_stake_time
                              + global_state.unlock_duration) =>
               /\ last'.penalty =
                      as_u64((last'.amount * global_state.early_unstake_penalty)
                                 \div BPS_DENOMINATOR)
               /\ last'.payout =
                      unwrap_or(checked_sub(last'.amount, last'.penalty), 0)]_vars

\* an unstake has been penalised right after a claim of accrued reward, on
\* principal deposited at least unlock_duration earlier
C35_Witness ==
    /\ last.op = "unstake"
    /\ last.res = "Ok"
    /\ last.penalty > 0
    /\ user_info[last.user].last_claim_time = clock
    /\ user_info[last.user].total_referral_rewards = 0
    /\ clock >= global_state.unlock_duration
    /\ global_state.unlock_duration > 0

\* C36: update_parameters changing reward_rate changes no account's pending
\* reward, and the reward credited at an account's next settlement is
\* computed with the rate in force at that settlement over the whole
\* interval since last_stake_time, the part before the change included.
C36_RateAtSettlementGoverns ==
    [][/\ (Instruction /\ last'.op = "update_parameters") =>
              user_info' = user_info
       /\ \A o \in Registered :
              LET whole == calculate_reward(user_info[o].staked_amount,
                               clock - user_info[o].last_stake_time,
                               global_state.reward_rate)
                  credited == IF user_info[o].rewards + whole > U64_MAX
                              THEN 0 ELSE whole
                  outstanding == user_info[o].staked_amount > 0
                                     /\ clock > user_info[o].last_stake_time
              IN  /\ ((Succeeded("stake", o) \/ Succeeded("unstake", o))
                         /\ outstanding) =>
                         user_info'[o].rewards = user_info[o].rewards + credited
                  /\ (Succeeded("claim_rewards", o) /\ outstanding) =>
                         last'.payout = user_info[o].rewards + credited
                  /\ (Succeeded("compound_rewards", o) /\ outstanding) =>
                         user_info'[o].staked_amount \in
                             {user_info[o].staked_amount,
                              user_info[o].staked_amount
                                  + user_info[o].rewards + credited}]_vars

\* an instruction has settled an accrual over an interval that began under
\* another reward_rate
C36_Witness ==
    /\ last.op \in SettlingOps
    /\ last.res = "Ok"
    /\ last.rerated
    /\ ~last.skipped

TrackerDid(op) ==
    /\ tracker'.steps = tracker.steps + 1
    /\ tracker'.unix_timestamp = tracker.unix_timestamp
    /\ tracker'.last.op = op

\* the referrer bound to referred wallet w in tracker accounts t, if any
BoundReferrer(t, w) ==
    IF w \in DOMAIN t.referred_user THEN t.referred_user[w].referrer ELSE None

\* the accounts and balances of the tracker
TrackerAccounts(t) ==
    <<t.initialized, t.referral_program, t.user_info, t.referred_user,
      t.referral_entry, t.token_vault, t.token_account>>

\* the record_referral of this step names referrer r by its account and code
NamesReferrer(r) ==
    /\ TrackerDid("record_referral")
    /\ tracker'.last.referrer = r
    /\ r \in DOMAIN tracker.user_info
    /\ tracker'.last.referral_code = tracker.user_info[r].referral_code

\* C38 (as stated): a referred user's referrer is bound by the first
\* record_referral and never changes; a later record_referral naming a
\* different referrer fails with ReferrerMismatch, a first record_referral
\* whose referrer is the referred wallet itself fails with SelfReferral, and
\* a failed call changes no stats or totals.
C38_ReferrerBoundOnce ==
    [][\A w \in Users :
        /\ BoundReferrer(tracker, w) # None =>
               BoundReferrer(tracker', w) = BoundReferrer(tracker, w)
        /\ \A r \in Users :
               (NamesReferrer(r) /\ tracker'.last.wallet = w) =>
                   /\ (BoundReferrer(tracker, w) = None
                          /\ tracker'.last.res = "Ok") =>
                          BoundReferrer(tracker', w) = Some(r)
                   /\ BoundReferrer(tracker, w) \notin {None, Some(r)} =>
                          tracker'.last.res = "ReferrerMismatch"
                   /\ (BoundReferrer(tracker, w) = None /\ r = w) =>
                          tracker'.last.res = "SelfReferral"
                   /\ tracker'.last.res # "Ok" =>
                          TrackerAccounts(tracker') = TrackerAccounts(tracker)]_vars

\* C38 (amended): as stated, for calls with a positive amount: a call with
\* amount 0 whose ledger entry is free fails with ZeroAmount before the
\* referrer is looked at.
C38_ReferrerBoundOnceForPositiveAmounts ==
    [][\A w \in Users :
        /\ BoundReferrer(tracker, w) # None =>
               BoundReferrer(tracker', w) = BoundReferrer(tracker, w)
        /\ \A r \in Users :
               (NamesReferrer(r) /\ tracker'.last.wallet = w) =>
                   /\ (BoundReferrer(tracker, w) = None
                          /\ tracker'.last.res = "Ok") =>
                          BoundReferrer(tracker', w) = Some(r)
                   /\ (BoundReferrer(tracker, w) \notin {None, Some(r)}
                          /\ tracker'.last.amount > 0) =>
                          tracker'.last.res = "ReferrerMismatch"
                   /\ (BoundReferrer(tracker, w) = None /\ r = w
                          /\ tracker'.last.amount > 0) =>
                          tracker'.last.res = "SelfReferral"
                   /\ (tracker'.last.amount = 0
                          /\ <<r, w, tracker.unix_timestamp>>
                                 \notin DOMAIN tracker.referral_entry) =>
                          tracker'.last.res = "ZeroAmount"
                   /\ tracker'.last.res # "Ok" =>
                          TrackerAccounts(tracker') = TrackerAccounts(tracker)]_vars

\* a record_referral naming another referrer than the bound one has failed
\* with ReferrerMismatch, the binding and the referrer's stats being kept
C38_Witness ==
    /\ tracker.last.op = "record_referral"
    /\ tracker.last.res = "ReferrerMismatch"
    /\ BoundReferrer(tracker, tracker.last.wallet) # None
    /\ BoundReferrer(tracker, tracker.last.wallet) # Some(tracker.last.referrer)
    /\ tracker.user_info[tracker.last.referrer].referred_count = 0

\* no referrer account of t holds claimable rewards
NothingClaimable(t) ==
    \A r \in DOMAIN t.user_info : t.user_info[r].claimable_rewards = 0

\* the claim_rewards of this step draws a positive amount on an existing
\* referrer account
ClaimsPositive ==
    /\ TrackerDid("claim_rewards")
    /\ tracker'.last.amount > 0
    /\ tracker'.last.referrer \in DOMAIN tracker.user_info

\* C39 (as stated): no operation of the tracker increases claimable_rewards,
\* so it is 0 in every reachable state and every claim_rewards with
\* amount > 0 fails with InsufficientRewards.
C39_NothingEverClaimable ==
    [][/\ NothingClaimable(tracker')
       /\ ClaimsPositive => tracker'.last.res = "InsufficientRewards"]_vars

\* C39 (amended): claimable_rewards is 0 in every reachable state, and
\* every claim_rewards with amount > 0 signed by the account's authority
\* fails with InsufficientRewards; signed by anyone else it fails with
\* Unauthorized. No claim pays anything.
C39_NothingEverClaimableByItsAuthority ==
    [][/\ NothingClaimable(tracker')
       /\ ClaimsPositive =>
              tracker'.last.res =
                  IF tracker'.last.signer
                         = tracker.user_info[tracker'.last.referrer].authority
                  THEN "InsufficientRewards"
                  ELSE "Unauthorized"
       /\ tracker'.token_vault = tracker.token_vault
              \/ tracker'.last.op = "initialize"
       /\ tracker'.token_account = tracker.token_account]_vars

\* a referrer that has earned referral rewards has claimed a positive
\* amount and been refused with InsufficientRewards
C39_Witness ==
    /\ tracker.last.op = "claim_rewards"
    /\ tracker.last.res = "InsufficientRewards"
    /\ tracker.last.amount > 0
    /\ tracker.user_info[tracker.last.referrer].total_rewards_earned > 0
    /\ tracker.user_info[tracker.last.referrer].claimable_rewards = 0

====
